---- MODULE Spec2Model ----
(***************************************************************************)
(* Multi-product CVP analysis (src/CVPsite.py).                            *)
(*                                                                         *)
(* The script reads a fixed cost and a list of product rows, keeps the     *)
(* rows with a positive quantity, sums the pooled totals, derives the CVP  *)
(* metrics and the chart geometry.  Numbers are modelled as exact          *)
(* rationals [k, n, d]; float('inf') and its arithmetic are modelled by    *)
(* the tagged values PInf / NInf / NaN.  A division whose denominator is   *)
(* zero yields the tagged value ZeroDiv (ZeroDivisionError for Python      *)
(* floats, RuntimeWarning with inf/nan for numpy floats).                  *)
(***************************************************************************)
EXTENDS Integers, Sequences, FiniteSets

VARIABLES pc, outcome, fixed_cost, num_products, products, df_active,
          total_revenue, total_variable_cost, total_cm, total_quantity,
          cm_per_unit, cm_ratio, vc_ratio, break_even_units,
          break_even_dollars, mos_units, mos_dollars, net_operating_income,
          dol, max_units, units, total_cost_line, total_revenue_line, be_y,
          divided_by

inputVars == <<fixed_cost, num_products, products>>
totalVars == <<total_revenue, total_variable_cost, total_cm, total_quantity>>
metricVars == <<cm_per_unit, cm_ratio, vc_ratio, break_even_units,
                break_even_dollars, mos_units, mos_dollars,
                net_operating_income, dol>>
chartVars == <<max_units, units, total_cost_line, total_revenue_line, be_y>>
vars == <<pc, outcome, inputVars, df_active, totalVars, metricVars, chartVars,
          divided_by>>

(***************************************************************************)
(* Bounds                                                                  *)
(***************************************************************************)
MaxProducts == 2
MaxChartUnits == 650

(***************************************************************************)
(* Exact arithmetic on tagged rationals                                    *)
(***************************************************************************)
Abs(x) == IF x < 0 THEN -x ELSE x

RECURSIVE GCD(_, _)
GCD(a, b) == IF b = 0 THEN a ELSE GCD(b, a % b)

Num(n, d) ==
    LET s == IF d < 0 THEN -1 ELSE 1
        g == GCD(Abs(n), Abs(d))
    IN  [k |-> "num", n |-> (s * n) \div g, d |-> (s * d) \div g]

Zero == Num(0, 1)
PInf == [k |-> "inf", n |-> 1, d |-> 0]
NInf == [k |-> "inf", n |-> -1, d |-> 0]
NaN == [k |-> "nan", n |-> 0, d |-> 0]
ZeroDiv == [k |-> "zerodiv", n |-> 0, d |-> 0]
None == [k |-> "none", n |-> 0, d |-> 0]

IsNum(x) == x.k = "num"
Sign(x) == IF x.n > 0 THEN 1 ELSE IF x.n < 0 THEN -1 ELSE 0

Lt(a, b) ==
    IF IsNum(a) /\ IsNum(b)
    THEN LET g == GCD(a.d, b.d) IN a.n * (b.d \div g) < b.n * (a.d \div g)
    ELSE IF a.k \in {"nan", "zerodiv", "none"} \/ b.k \in {"nan", "zerodiv", "none"} THEN FALSE
    ELSE IF IsNum(a) THEN b = PInf
    ELSE IF IsNum(b) THEN a = NInf
    ELSE a = NInf /\ b = PInf
Le(a, b) == a = b \/ Lt(a, b)

Neg(a) ==
    IF IsNum(a) THEN Num(-a.n, a.d)
    ELSE IF a.k = "inf" THEN [a EXCEPT !.n = -a.n]
    ELSE a

Add(a, b) ==
    IF a.k = "zerodiv" \/ b.k = "zerodiv" THEN ZeroDiv
    ELSE IF a.k \in {"nan", "none"} \/ b.k \in {"nan", "none"} THEN NaN
    ELSE IF IsNum(a) /\ IsNum(b)
         THEN LET g == GCD(a.d, b.d)
              IN  Num(a.n * (b.d \div g) + b.n * (a.d \div g), (a.d \div g) * b.d)
    ELSE IF IsNum(a) THEN b
    ELSE IF IsNum(b) THEN a
    ELSE IF a = b THEN a ELSE NaN

Sub(a, b) == Add(a, Neg(b))

\* the product of two finite values, cancelling before multiplying
MulNum(a, b) ==
    LET g1 == GCD(Abs(a.n), b.d)
        g2 == GCD(Abs(b.n), a.d)
    IN  Num((a.n \div g1) * (b.n \div g2), (a.d \div g2) * (b.d \div g1))

Mul(a, b) ==
    IF a.k = "zerodiv" \/ b.k = "zerodiv" THEN ZeroDiv
    ELSE IF a.k \in {"nan", "none"} \/ b.k \in {"nan", "none"} THEN NaN
    ELSE IF IsNum(a) /\ IsNum(b) THEN MulNum(a, b)
    ELSE IF Sign(a) * Sign(b) > 0 THEN PInf
    ELSE IF Sign(a) * Sign(b) < 0 THEN NInf
    ELSE NaN

Div(a, b) ==
    IF a.k = "zerodiv" \/ b.k = "zerodiv" THEN ZeroDiv
    ELSE IF a.k \in {"nan", "none"} \/ b.k \in {"nan", "none"} THEN NaN
    ELSE IF IsNum(b) /\ b.n = 0 THEN ZeroDiv
    ELSE IF IsNum(a) /\ IsNum(b) THEN MulNum(a, Num(b.d, b.n))
    ELSE IF IsNum(b) THEN (IF Sign(a) * Sign(b) > 0 THEN PInf ELSE NInf)
    ELSE IF IsNum(a) THEN Zero
    ELSE NaN

\* int(x) for a finite x: truncation toward zero
Trunc(x) == IF x.n >= 0 THEN x.n \div x.d ELSE -((-x.n) \div x.d)

RECURSIVE SumSeq(_)
SumSeq(s) == IF s = <<>> THEN Zero ELSE Add(SumSeq(SubSeq(s, 1, Len(s) - 1)), s[Len(s)])

(***************************************************************************)
(* Inputs the widgets can deliver (all have min_value = 0)                 *)
(***************************************************************************)
FixedCosts == {Zero, Num(5000, 1)}
SellingPrices == {Zero, Num(5, 1), Num(10, 1)}
VariableCosts == {Num(5, 1), Num(10, 1)}
Quantities == {Zero, Num(1, 2), Num(500, 1)}

max_products == 100

(***************************************************************************)
(* Aggregation (lines 39-54)                                               *)
(***************************************************************************)
\* variant: the mask written with >= 0
ActiveRowsNonNegative(df) == SelectSeq(df, LAMBDA r : Le(Zero, r.quantity))
\* df[df["Quantity Sold"] > 0]
ActiveRows(df) == SelectSeq(df, LAMBDA r : Lt(Zero, r.quantity))

\* variant: the emptiness test left out
IsEmptyDropped(df) == FALSE
\* df_active.empty
IsEmpty(df) == Len(df) = 0

RowRevenue(r) == Mul(r.selling_price, r.quantity)
RowVariableCost(r) == Mul(r.variable_cost, r.quantity)
RowContributionMargin(rev, tvc) == Sub(rev, tvc)

\* the three derived columns, each computed from the columns before it
WithColumns(df) ==
    [i \in 1..Len(df) |->
        LET rev == RowRevenue(df[i])
            tvc == RowVariableCost(df[i])
        IN  [Product |-> df[i].Product,
             selling_price |-> df[i].selling_price,
             variable_cost |-> df[i].variable_cost,
             quantity |-> df[i].quantity,
             total_revenue |-> rev,
             total_variable_cost |-> tvc,
             contribution_margin |-> RowContributionMargin(rev, tvc)]]

TotalRevenue(df) == SumSeq([i \in 1..Len(df) |-> df[i].total_revenue])
\* variant: the unit-cost column summed instead of the total-cost column
TotalVariableCostUnit(df) == SumSeq([i \in 1..Len(df) |-> df[i].variable_cost])
TotalVariableCost(df) == SumSeq([i \in 1..Len(df) |-> df[i].total_variable_cost])
TotalCm(df) == SumSeq([i \in 1..Len(df) |-> df[i].contribution_margin])
TotalQuantity(df) == SumSeq([i \in 1..Len(df) |-> df[i].quantity])

(***************************************************************************)
(* Metrics (lines 56-65)                                                   *)
(***************************************************************************)
\* variant: the guard without the revenue test
MetricsGuardQuantityOnly(tq, tr) == Lt(Zero, tq)
MetricsGuard(tq, tr) == Lt(Zero, tq) /\ Lt(Zero, tr)

CmPerUnit(tcm, tq) == Div(tcm, tq)
CmRatio(tcm, tr) == Div(tcm, tr)
VcRatio(tvc, tr) == Div(tvc, tr)
\* variant: product in place of quotient
BreakEvenUnitsProduct(fc, cmpu) == IF cmpu # Zero THEN Mul(fc, cmpu) ELSE PInf
BreakEvenUnits(fc, cmpu) == IF cmpu # Zero THEN Div(fc, cmpu) ELSE PInf
BreakEvenDollars(fc, cmr) == IF cmr # Zero THEN Div(fc, cmr) ELSE PInf
MosUnits(tq, beu) == Sub(tq, beu)
MosDollars(tr, bed) == Sub(tr, bed)
NetOperatingIncome(tcm, fc) == Sub(tcm, fc)
\* variant: the quotient without its != 0 test
DolUnguarded(tcm, noi) == Div(tcm, noi)
Dol(tcm, noi) == IF noi # Zero THEN Div(tcm, noi) ELSE PInf

\* the denominators of the divisions lines 57-65 evaluate
MetricDenominators(tq, tr, cmpu, cmr, noi) ==
    {tq, tr} \cup (IF cmpu # Zero THEN {cmpu} ELSE {})
             \cup (IF cmr # Zero THEN {cmr} ELSE {})
             \cup (IF noi # Zero THEN {noi} ELSE {})

(***************************************************************************)
(* Chart geometry (lines 87-91, 108)                                       *)
(***************************************************************************)
\* variants: rounding up instead of truncating; no 1.2 factor
MaxUnitsCeil(tq) ==
    IF Lt(Zero, tq)
    THEN LET x == Mul(tq, Num(12, 10)) IN (x.n + x.d - 1) \div x.d
    ELSE 1
MaxUnitsNoHeadroom(tq) == IF Lt(Zero, tq) THEN Trunc(tq) ELSE 1
MaxUnits(tq) == IF Lt(Zero, tq) THEN Trunc(Mul(tq, Num(12, 10))) ELSE 1

Step(mu) == IF mu \div 100 > 1 THEN mu \div 100 ELSE 1

\* range(start, stop, step) for step > 0
Range(start, stop, step) ==
    LET n == IF stop > start THEN (stop - start + step - 1) \div step ELSE 0
    IN  [i \in 1..n |-> start + (i - 1) * step]

\* variant: stop = max_units, not max_units + 1
UnitsStopExclusive(mu) == Range(0, mu, Step(mu))
Units(mu) == Range(0, mu + 1, Step(mu))

CostAt(fc, tvc, tq, u) == Add(fc, Mul(Div(tvc, tq), u))
RevenueAt(tr, tq, u) == Mul(Div(tr, tq), u)

TotalCostLine(fc, tvc, tq, us) == [i \in 1..Len(us) |-> CostAt(fc, tvc, tq, Num(us[i], 1))]
TotalRevenueLine(tr, tq, us) == [i \in 1..Len(us) |-> RevenueAt(tr, tq, Num(us[i], 1))]
\* variant: the marker without the fixed cost
BeYNoFixedCost(fc, tvc, tq, beu) == Mul(Div(tvc, tq), beu)
BeY(fc, tvc, tq, beu) == Add(fc, Mul(Div(tvc, tq), beu))

(***************************************************************************)
(* The script as a state machine                                           *)
(***************************************************************************)
NoTotals ==
    /\ total_revenue = None /\ total_variable_cost = None
    /\ total_cm = None /\ total_quantity = None
NoMetrics ==
    /\ cm_per_unit = None /\ cm_ratio = None /\ vc_ratio = None
    /\ break_even_units = None /\ break_even_dollars = None
    /\ mos_units = None /\ mos_dollars = None
    /\ net_operating_income = None /\ dol = None
NoChart ==
    /\ max_units = -1 /\ units = <<>> /\ total_cost_line = <<>>
    /\ total_revenue_line = <<>> /\ be_y = None

Init ==
    /\ pc = "input"
    /\ outcome = "none"
    /\ fixed_cost \in FixedCosts
    /\ num_products \in 1..(IF MaxProducts < max_products THEN MaxProducts ELSE max_products)
    /\ products = <<>>
    /\ df_active = <<>>
    /\ NoTotals /\ NoMetrics /\ NoChart
    /\ divided_by = {}

\* lines 22-37: one pass of the input loop
ReadProduct ==
    /\ pc = "input"
    /\ Len(products) < num_products
    /\ \E sp \in SellingPrices, vc \in VariableCosts, q \in Quantities :
         products' = Append(products,
                            [Product |-> Len(products) + 1, selling_price |-> sp,
                             variable_cost |-> vc, quantity |-> q])
    /\ UNCHANGED <<pc, outcome, fixed_cost, num_products, df_active, totalVars,
                   metricVars, chartVars, divided_by>>

\* lines 39-41
FilterActive ==
    /\ pc = "input"
    /\ Len(products) = num_products
    /\ df_active' = ActiveRows(products)
    /\ pc' = "filtered"
    /\ UNCHANGED <<outcome, inputVars, totalVars, metricVars, chartVars, divided_by>>

\* lines 43-54
Summarise ==
    /\ pc = "filtered"
    /\ ~IsEmpty(df_active)
    /\ df_active' = WithColumns(df_active)
    /\ total_revenue' = TotalRevenue(df_active')
    /\ total_variable_cost' = TotalVariableCost(df_active')
    /\ total_cm' = TotalCm(df_active')
    /\ total_quantity' = TotalQuantity(df_active')
    /\ pc' = "totals"
    /\ UNCHANGED <<outcome, inputVars, metricVars, chartVars, divided_by>>

\* lines 115-116
ShowInfo ==
    /\ pc = "filtered"
    /\ IsEmpty(df_active)
    /\ outcome' = "info"
    /\ pc' = "done"
    /\ UNCHANGED <<inputVars, df_active, totalVars, metricVars, chartVars, divided_by>>

\* lines 56-81
ComputeMetrics ==
    /\ pc = "totals"
    /\ MetricsGuard(total_quantity, total_revenue)
    /\ cm_per_unit' = CmPerUnit(total_cm, total_quantity)
    /\ cm_ratio' = CmRatio(total_cm, total_revenue)
    /\ vc_ratio' = VcRatio(total_variable_cost, total_revenue)
    /\ break_even_units' = BreakEvenUnits(fixed_cost, cm_per_unit')
    /\ break_even_dollars' = BreakEvenDollars(fixed_cost, cm_ratio')
    /\ mos_units' = MosUnits(total_quantity, break_even_units')
    /\ mos_dollars' = MosDollars(total_revenue, break_even_dollars')
    /\ net_operating_income' = NetOperatingIncome(total_cm, fixed_cost)
    /\ dol' = Dol(total_cm, net_operating_income')
    /\ divided_by' = divided_by \cup
            MetricDenominators(total_quantity, total_revenue, cm_per_unit',
                               cm_ratio', net_operating_income')
    /\ outcome' = "metrics"
    /\ pc' = "metrics"
    /\ UNCHANGED <<inputVars, df_active, totalVars, chartVars>>

\* lines 113-114
ShowWarning ==
    /\ pc = "totals"
    /\ ~MetricsGuard(total_quantity, total_revenue)
    /\ outcome' = "warning"
    /\ pc' = "done"
    /\ UNCHANGED <<inputVars, df_active, totalVars, metricVars, chartVars, divided_by>>

\* lines 83-112
BuildChart ==
    /\ pc = "metrics"
    /\ max_units' = MaxUnits(total_quantity)
    /\ units' = Units(max_units')
    /\ total_cost_line' = TotalCostLine(fixed_cost, total_variable_cost, total_quantity, units')
    /\ total_revenue_line' = TotalRevenueLine(total_revenue, total_quantity, units')
    /\ be_y' = BeY(fixed_cost, total_variable_cost, total_quantity, break_even_units)
    /\ divided_by' = divided_by \cup {total_quantity}
    /\ pc' = "done"
    /\ UNCHANGED <<outcome, inputVars, df_active, totalVars, metricVars>>

Next ==
    \/ ReadProduct
    \/ FilterActive
    \/ Summarise
    \/ ShowInfo
    \/ ComputeMetrics
    \/ ShowWarning
    \/ BuildChart

Spec == Init /\ [][Next]_vars

(***************************************************************************)
(* The sampling of the chart domain on its own (line 88), for every        *)
(* max_units up to MaxChartUnits                                           *)
(***************************************************************************)
InitChart ==
    /\ pc = "range"
    /\ outcome = "none"
    /\ fixed_cost = Zero
    /\ num_products = 1
    /\ products = <<>>
    /\ df_active = <<>>
    /\ NoTotals /\ NoMetrics
    /\ max_units \in 0..MaxChartUnits
    /\ units = <<>> /\ total_cost_line = <<>> /\ total_revenue_line = <<>>
    /\ be_y = None
    /\ divided_by = {}

SampleUnits ==
    /\ pc = "range"
    /\ units' = Units(max_units)
    /\ pc' = "done"
    /\ UNCHANGED <<outcome, inputVars, df_active, totalVars, metricVars, max_units,
                   total_cost_line, total_revenue_line, be_y, divided_by>>

NextChart == SampleUnits

SpecChart == InitChart /\ [][NextChart]_vars

(***************************************************************************)
(* Properties                                                              *)
(***************************************************************************)
TotalsKnown == ~NoTotals
Succeeded == pc = "done" /\ outcome = "metrics"
Positive(i) == Lt(Zero, products[i].quantity)
U(i) == Num(units[i], 1)

\* C1: once the pooled totals are summed and the guard is passed, metrics are
\* produced if and only if total_quantity > 0 and total_revenue > 0; otherwise
\* the outcome is the warning, no metric and no chart is produced and no
\* division has been evaluated (so none by total_quantity or total_revenue).
C1_MetricsIffPositiveTotals ==
    (TotalsKnown /\ pc \in {"metrics", "done"}) =>
        /\ (outcome = "metrics") <=> (Lt(Zero, total_quantity) /\ Lt(Zero, total_revenue))
        /\ ~(Lt(Zero, total_quantity) /\ Lt(Zero, total_revenue)) =>
               /\ outcome = "warning"
               /\ NoMetrics /\ NoChart
               /\ divided_by = {}
        /\ Zero \notin divided_by

\* C1 witness: a non-empty active set whose selling prices are all 0 ended in
\* the warning.
C1_Witness ==
    /\ pc = "done" /\ outcome = "warning"
    /\ Len(df_active) = 2
    /\ \A j \in 1..Len(df_active) : df_active[j].selling_price = Zero
    /\ total_revenue = Zero /\ Lt(Zero, total_quantity)
    /\ fixed_cost = Num(5000, 1)

\* C2: when no product has a positive quantity the run ends in the
\* informational message: totals are never summed, no metric, chart or warning
\* is produced and no division is evaluated.
C2_EmptyActiveSetIsInfo ==
    (pc # "input" /\ \A i \in 1..Len(products) : ~Positive(i)) =>
        /\ NoTotals /\ NoMetrics /\ NoChart
        /\ divided_by = {}
        /\ outcome \in {"none", "info"}
        /\ pc \in {"filtered", "done"}
        /\ pc = "done" => outcome = "info"

\* C2 witness: two products, both with quantity 0, ended in the message.
C2_Witness ==
    /\ pc = "done" /\ outcome = "info"
    /\ Len(products) = 2
    /\ \A i \in 1..Len(products) : products[i].quantity = Zero

\* C3: after filtering, a product with quantity <= 0 has no row in the summary
\* and adds nothing to the four totals; a product with quantity > 0 has
\* exactly one row, carrying its inputs, and the rows are in input order.
C3_OnlyPositiveRowsInOrder ==
    (pc # "input") =>
        /\ \A i \in 1..Len(products) :
             LET hits == {j \in 1..Len(df_active) : df_active[j].Product = i}
             IN  IF Positive(i)
                 THEN /\ Cardinality(hits) = 1
                      /\ \A j \in hits :
                           /\ df_active[j].selling_price = products[i].selling_price
                           /\ df_active[j].variable_cost = products[i].variable_cost
                           /\ df_active[j].quantity = products[i].quantity
                 ELSE hits = {}
        /\ \A j \in 1..Len(df_active) : df_active[j].Product \in 1..Len(products)
        /\ \A j, k \in 1..Len(df_active) :
             j < k => df_active[j].Product < df_active[k].Product
        /\ TotalsKnown =>
             LET only(f(_)) == SumSeq([i \in 1..Len(products) |->
                                         IF Positive(i) THEN f(products[i]) ELSE Zero])
                 rev(r) == Mul(r.selling_price, r.quantity)
                 cost(r) == Mul(r.variable_cost, r.quantity)
                 cm(r) == Sub(rev(r), cost(r))
                 qty(r) == r.quantity
             IN  /\ total_revenue = only(rev)
                 /\ total_variable_cost = only(cost)
                 /\ total_cm = only(cm)
                 /\ total_quantity = only(qty)

\* C3 witness: the first product has quantity 0, the second is active, and the
\* analysis of the one remaining row succeeded.
C3_Witness ==
    /\ Succeeded
    /\ Len(products) = 2
    /\ products[1].quantity = Zero /\ Positive(2)
    /\ Len(df_active) = 1 /\ df_active[1].Product = 2

\* C4: the pooled totals are the sums over the active rows of price*quantity,
\* cost*quantity, (price*quantity - cost*quantity) and quantity, and so the
\* total contribution margin is total revenue minus total variable cost.
C4_TotalsAreSums ==
    TotalsKnown =>
        LET n == Len(df_active)
            q(j) == df_active[j].quantity
        IN  /\ n > 0
            /\ total_revenue = SumSeq([j \in 1..n |-> Mul(df_active[j].selling_price, q(j))])
            /\ total_variable_cost = SumSeq([j \in 1..n |-> Mul(df_active[j].variable_cost, q(j))])
            /\ total_cm = SumSeq([j \in 1..n |->
                                    Sub(Mul(df_active[j].selling_price, q(j)),
                                        Mul(df_active[j].variable_cost, q(j)))])
            /\ total_quantity = SumSeq([j \in 1..n |-> q(j)])
            /\ total_cm = Sub(total_revenue, total_variable_cost)

\* C4 witness: two active products with different prices and quantities.
C4_Witness ==
    /\ pc = "done" /\ TotalsKnown
    /\ Len(df_active) = 2
    /\ df_active[1].selling_price # df_active[2].selling_price
    /\ df_active[1].quantity # df_active[2].quantity
    /\ total_cm # Zero

\* C5: in a successful analysis no division by zero is evaluated; a zero
\* cm_per_unit, cm_ratio or net_operating_income gives +infinity for
\* break_even_units, break_even_dollars or dol, and otherwise each of them is
\* the finite quotient.
C5_InfinitySentinels ==
    (outcome = "metrics") =>
        /\ Zero \notin divided_by
        /\ \A m \in {cm_per_unit, cm_ratio, vc_ratio, net_operating_income} : IsNum(m)
        /\ IF cm_per_unit = Zero
           THEN break_even_units = PInf
           ELSE IsNum(break_even_units) /\ break_even_units = Div(fixed_cost, cm_per_unit)
        /\ IF cm_ratio = Zero
           THEN break_even_dollars = PInf
           ELSE IsNum(break_even_dollars) /\ break_even_dollars = Div(fixed_cost, cm_ratio)
        /\ IF net_operating_income = Zero
           THEN dol = PInf
           ELSE IsNum(dol) /\ dol = Div(total_cm, net_operating_income)

\* C5 witness: contribution margin equal to the fixed cost (net operating
\* income 0) with a non-zero margin per unit.
C5_Witness ==
    /\ Succeeded
    /\ total_cm = fixed_cost /\ fixed_cost = Num(5000, 1)
    /\ net_operating_income = Zero /\ dol = PInf
    /\ IsNum(break_even_units)

\* C6: in a successful analysis with cm_per_unit # 0, fixed_cost equals
\* cm_per_unit * break_even_units and cm_ratio * break_even_dollars.
C6_BreakEvenIdentity ==
    (outcome = "metrics" /\ cm_per_unit # Zero) =>
        /\ Mul(cm_per_unit, break_even_units) = fixed_cost
        /\ Mul(cm_ratio, break_even_dollars) = fixed_cost

\* C6 witness: price 10, cost 5, fixed cost 5000: break-even at 1000 units
\* and 10000 dollars.
C6_Witness ==
    /\ Succeeded
    /\ fixed_cost = Num(5000, 1)
    /\ cm_per_unit = Num(5, 1) /\ cm_ratio = Num(1, 2)
    /\ break_even_units = Num(1000, 1) /\ break_even_dollars = Num(10000, 1)

\* C7 as claimed: max_units is the ceiling of total_quantity * 1.2 and the
\* sampled units lie in [0, max_units].
C7_Original ==
    Succeeded =>
        /\ Lt(Num(max_units - 1, 1), Mul(total_quantity, Num(12, 10)))
        /\ Le(Mul(total_quantity, Num(12, 10)), Num(max_units, 1))
        /\ \A i \in 1..Len(units) : 0 <= units[i] /\ units[i] <= max_units

\* C7 amended: max_units is total_quantity * 1.2 truncated (its floor), and
\* the sampled units lie in [0, max_units].
C7_MaxUnitsIsFloor ==
    Succeeded =>
        /\ Le(Num(max_units, 1), Mul(total_quantity, Num(12, 10)))
        /\ Lt(Mul(total_quantity, Num(12, 10)), Num(max_units + 1, 1))
        /\ \A i \in 1..Len(units) : 0 <= units[i] /\ units[i] <= max_units

\* C7 witness: a fractional total quantity (500.5) whose domain ends at 600.
C7_Witness ==
    /\ Succeeded
    /\ total_quantity = Num(1001, 2)
    /\ max_units = 600
    /\ Len(units) = 101

\* C8 as claimed: total_quantity <= max_units and
\* 0 <= break_even_units <= max_units in every successful analysis.
C8_Original ==
    Succeeded =>
        /\ Le(total_quantity, Num(max_units, 1))
        /\ Le(Zero, break_even_units)
        /\ Le(break_even_units, Num(max_units, 1))

\* C8 amended: total_quantity < max_units + 1 always, and
\* total_quantity <= max_units when total_quantity is an integer or at least
\* 5; the break-even point lies in [0, max_units] exactly when cm_per_unit > 0
\* and fixed_cost <= cm_per_unit * max_units, or cm_per_unit < 0 and
\* fixed_cost = 0.
C8_DomainCoverage ==
    Succeeded =>
        /\ Lt(total_quantity, Num(max_units + 1, 1))
        /\ (total_quantity.d = 1 \/ Le(Num(5, 1), total_quantity)) =>
               Le(total_quantity, Num(max_units, 1))
        /\ (Le(Zero, break_even_units) /\ Le(break_even_units, Num(max_units, 1)))
             <=> \/ /\ Lt(Zero, cm_per_unit)
                    /\ Le(fixed_cost, Mul(cm_per_unit, Num(max_units, 1)))
                 \/ /\ Lt(cm_per_unit, Zero)
                    /\ fixed_cost = Zero

\* C8 witness: a demand of 1000 units and a break-even volume of 1000 units,
\* both inside the domain that ends at 1200.
C8_Witness ==
    /\ Succeeded
    /\ total_quantity = Num(1000, 1)
    /\ max_units = 1200
    /\ break_even_units = Num(1000, 1)
    /\ Le(break_even_units, Num(max_units, 1))

\* C9: the sample units are 0, step, 2*step, ... with
\* step = max(1, floor(max_units / 100)): non-empty, from 0, strictly
\* increasing, last element in (max_units - step, max_units], at most 200
\* points, at least 101 once max_units >= 100, and 101 points with step 6
\* ending at 600 for max_units = 600.
C9_SampleUnits ==
    (pc = "done" /\ max_units >= 0) =>
        LET step == IF max_units >= 200 THEN max_units \div 100 ELSE 1
            n == Len(units)
        IN  /\ n >= 1
            /\ units[1] = 0
            /\ \A i \in 1..(n - 1) : units[i + 1] = units[i] + step
            /\ \A i \in 1..(n - 1) : units[i] < units[i + 1]
            /\ units[n] <= max_units
            /\ units[n] > max_units - step
            /\ n <= 200
            /\ max_units >= 100 => n >= 101
            /\ max_units < 100 => n = max_units + 1
            /\ max_units = 600 => (step = 6 /\ n = 101 /\ units[n] = 600)

\* C9 witness: max_units = 600 sampled in 101 points ending at 600.
C9_Witness ==
    /\ pc = "done"
    /\ max_units = 600
    /\ Len(units) = 101
    /\ units[2] = 6
    /\ units[101] = 600

\* C10: in a successful analysis with cm_per_unit # 0 the break-even marker
\* is where the two lines meet: be_y equals (total_revenue / total_quantity)
\* * break_even_units and break_even_dollars; and with cm_per_unit > 0 the
\* cost line is above the revenue line at the samples below break_even_units
\* and below it at the samples above.
C10_MarkerIsIntersection ==
    (Succeeded /\ cm_per_unit # Zero) =>
        /\ be_y = Mul(Div(total_revenue, total_quantity), break_even_units)
        /\ be_y = break_even_dollars
        /\ Len(total_cost_line) = Len(units)
        /\ Len(total_revenue_line) = Len(units)
        /\ Lt(Zero, cm_per_unit) =>
             \A i \in 1..Len(units) :
                /\ Lt(U(i), break_even_units) => Lt(total_revenue_line[i], total_cost_line[i])
                /\ Lt(break_even_units, U(i)) => Lt(total_cost_line[i], total_revenue_line[i])
                /\ U(i) = break_even_units => total_cost_line[i] = total_revenue_line[i]

\* C10 witness: a positive margin and fixed cost with samples on both sides
\* of the break-even volume.
C10_Witness ==
    /\ Succeeded
    /\ Lt(Zero, cm_per_unit) /\ fixed_cost # Zero
    /\ \E i, j \in 1..Len(units) :
         Lt(U(i), break_even_units) /\ Lt(break_even_units, U(j))

====
